---- MODULE Spec2Model ----
(***************************************************************************)
(* Model of image_cleaner.py: the clean_scan pipeline (imdecode, cvtColor, *)
(* fastNlMeansDenoising, adaptiveThreshold, resize, imencode) and the      *)
(* Flask upload handler that calls it.                                     *)
(*                                                                         *)
(* Every invocation of clean_scan is a frame of Python locals; the frames  *)
(* are the functions pc, file_bytes, img, gray, denoised, thresh, resized, *)
(* out, err and ran, indexed by a call id.                                 *)
(*                                                                         *)
(* A raster (numpy array / cv::Mat) is a record                            *)
(*   [w, h, ch, solid, px]                                                 *)
(* of width, height, channel count and the rows of samples px[y][x].  A    *)
(* raster whose samples are all equal and whose dimensions are too large   *)
(* to enumerate is kept as solid = TRUE with px the 1x1 grid holding the   *)
(* common sample.  None (imdecode's result on undecodable bytes, and the   *)
(* value of a local not yet assigned) is the empty raster.                 *)
(***************************************************************************)
EXTENDS Integers, Sequences, FiniteSets, TLC

\* ---------------------------------------------------------------- bounds
MaxW == 3
MaxH == 3
MaxArea == 4
MaxFlash == 2

\* ------------------------------------------------------ program constants
DenoiseH == 30           \* fastNlMeansDenoising(gray, h=30)
MaxValue == 255          \* adaptiveThreshold(denoised, 255, ...)
BlockSize == 35          \* blockSize=35
ThreshC == 15            \* C=15
Fx == 2                  \* resize(..., fx=2, ...)
Fy == 2                  \* resize(..., fy=2, ...)
JpegMaxDimension == 65500 \* largest width/height the ".jpg" encoder accepts

\* ------------------------------------------------------------ arithmetic
RECURSIVE SumFn(_, _, _)
SumFn(f, lo, hi) == IF lo > hi THEN 0 ELSE f[lo] + SumFn(f, lo + 1, hi)

RECURSIVE Pow2(_)
Pow2(k) == IF k = 0 THEN 1 ELSE 2 * Pow2(k - 1)

Shr(x, k) == x \div Pow2(k)

Clamp(i, n) == IF i < 1 THEN 1 ELSE IF i > n THEN n ELSE i

RECURSIVE Flatten(_)
Flatten(ss) == IF ss = <<>> THEN <<>> ELSE Head(ss) \o Flatten(Tail(ss))

\* --------------------------------------------------------------- rasters
None == [w |-> 0, h |-> 0, ch |-> 0, solid |-> FALSE, px |-> <<>>]

Rows(r) == Len(r.px)
Cols(r) == Len(r.px[1])

\* the set of sample values of a non-empty raster
Samples(r) == {r.px[y][x] : y \in 1..Rows(r), x \in 1..Cols(r)}

\* ----------------------------------------------- encoded images (bytes)
\* np.frombuffer(file_bytes, np.uint8) is the byte sequence itself.  The
\* container formats cv2.imdecode understands are stood for by two layouts:
\*   raw:   <<137, w_hi, w_lo, h_hi, h_lo, b, g, r, b, g, r, ...>>
\*   fill:  <<66,  w_hi, w_lo, h_hi, h_lo, b, g, r>>   (one colour, any size)
RawMagic == 137
FillMagic == 66
HeaderLen == 5

Hi(n) == n \div 256
Lo(n) == n % 256
Word(b, k) == b[k] * 256 + b[k + 1]

\* cv2.imdecode(buf, IMREAD_COLOR) on a non-empty buffer: a 3-channel BGR
\* raster, or None when the bytes are not a complete image.
imdecode(b) ==
    IF Len(b) < HeaderLen THEN None
    ELSE LET w == Word(b, 2)
             h == Word(b, 4)
         IN  IF w = 0 \/ h = 0 THEN None
             ELSE IF b[1] = RawMagic /\ Len(b) = HeaderLen + 3 * w * h
             THEN [w |-> w, h |-> h, ch |-> 3, solid |-> FALSE,
                   px |-> [y \in 1..h |-> [x \in 1..w |->
                            LET k == HeaderLen + 3 * ((y - 1) * w + (x - 1))
                            IN  <<b[k + 1], b[k + 2], b[k + 3]>>]]]
             ELSE IF b[1] = FillMagic /\ Len(b) = HeaderLen + 3
             THEN [w |-> w, h |-> h, ch |-> 3, solid |-> TRUE,
                   px |-> << << <<b[6], b[7], b[8]>> >> >>]
             ELSE None

\* cv2.cvtColor(img, COLOR_BGR2GRAY): Y = 0.114 B + 0.587 G + 0.299 R in
\* 15-bit fixed point, one sample per pixel, same dimensions.
BY15 == 3735
GY15 == 19235
RY15 == 9798
GrayOf(p) == Shr(p[1] * BY15 + p[2] * GY15 + p[3] * RY15 + Pow2(14), 15)

cvtColor(m) ==
    [m EXCEPT !.ch = 1,
              !.px = [y \in 1..Rows(m) |-> [x \in 1..Cols(m) |->
                        GrayOf(m.px[y][x])]]]

\* cv2.fastNlMeansDenoising(gray, h=30): every sample becomes the rounded
\* weighted mean of the samples of the search window that resemble it.  The
\* weight exp(-d^2/h^2) is cut to 1 for |d| <= h and 0 beyond; the search
\* window (21x21) covers the whole of an enumerated raster.
fastNlMeansDenoising(g) ==
    LET n == Rows(g) * Cols(g)
        cell == [k \in 1..n |-> g.px[((k - 1) \div Cols(g)) + 1][((k - 1) % Cols(g)) + 1]]
        near(v, u) == IF v >= u THEN v - u <= DenoiseH ELSE u - v <= DenoiseH
        cnt(v) == SumFn([k \in 1..n |-> IF near(v, cell[k]) THEN 1 ELSE 0], 1, n)
        tot(v) == SumFn([k \in 1..n |-> IF near(v, cell[k]) THEN cell[k] ELSE 0], 1, n)
    IN  [g EXCEPT !.px = [y \in 1..Rows(g) |-> [x \in 1..Cols(g) |->
            LET v == g.px[y][x] IN (2 * tot(v) + cnt(v)) \div (2 * cnt(v))]]]

\* cv2.adaptiveThreshold(src, 255, ADAPTIVE_THRESH_MEAN_C, THRESH_BINARY,
\* blockSize=35, C=15): the mean raster is boxFilter(src) of the same 8-bit
\* type (row sums, then column sums, BORDER_REPLICATE, normalised and
\* rounded to the nearest sample value); dst = 255 where src - mean > -C.
Radius == (BlockSize - 1) \div 2
Area == BlockSize * BlockSize

boxFilter(px) ==
    LET h == Len(px)
        w == Len(px[1])
        rowSum == [y \in 1..h |-> [x \in 1..w |->
                    SumFn([d \in (0 - Radius)..Radius |-> px[y][Clamp(x + d, w)]],
                          0 - Radius, Radius)]]
        colSum == [y \in 1..h |-> [x \in 1..w |->
                    SumFn([d \in (0 - Radius)..Radius |-> rowSum[Clamp(y + d, h)][x]],
                          0 - Radius, Radius)]]
    IN  [y \in 1..h |-> [x \in 1..w |-> (2 * colSum[y][x] + Area) \div (2 * Area)]]

\* THRESH_TOZERO in place of THRESH_BINARY
ThreshPixel_toZero(s, m) == IF s - m > 0 - ThreshC THEN s ELSE 0

\* >= in place of >
ThreshPixel_orEqual(s, m) == IF s - m >= 0 - ThreshC THEN MaxValue ELSE 0

ThreshPixel(s, m) == IF s - m > 0 - ThreshC THEN MaxValue ELSE 0

adaptiveThreshold(src) ==
    LET mean == boxFilter(src.px)
    IN  [src EXCEPT !.px = [y \in 1..Rows(src) |-> [x \in 1..Cols(src) |->
                              ThreshPixel(src.px[y][x], mean[y][x])]]]

\* cv2.resize(src, None, fx=2, fy=2, interpolation=INTER_LINEAR) on 8-bit
\* samples.  Destination index d (from 1) maps to source coordinate
\* (d - 0.5)/f - 0.5 (from 0); the left tap and the weight of the right tap
\* in 1/2048 units, both clamped at the borders.
CoefBits == 11
CoefScale == Pow2(CoefBits)

\* numerator of the source coordinate over the denominator 2*f, from 0
\* destination index taken from 0 where it counts from 1
SrcNum_offByOne(d, f) == 2 * d + 1 - f

SrcNum(d, f) == 2 * d - 1 - f
Tap(d, f, n) ==
    LET num == SrcNum(d, f)
        fl  == IF num < 0 THEN 0 - 1 ELSE num \div (2 * f)
        fr  == ((num - fl * 2 * f) * CoefScale + f) \div (2 * f)
    IN  IF fl < 0 THEN [i |-> 1, a |-> 0]
        ELSE IF fl >= n - 1 THEN [i |-> n, a |-> 0]
        ELSE [i |-> fl + 1, a |-> fr]

resizeLinear(px) ==
    LET h == Len(px)
        w == Len(px[1])
        hor == [y \in 1..h |-> [x \in 1..(Fx * w) |->
                 LET t == Tap(x, Fx, w)
                 IN  px[y][t.i] * (CoefScale - t.a) + px[y][Clamp(t.i + 1, w)] * t.a]]
    IN  [y \in 1..(Fy * h) |-> [x \in 1..(Fx * w) |->
           LET t == Tap(y, Fy, h)
               s0 == hor[t.i][x]
               s1 == hor[Clamp(t.i + 1, h)][x]
           IN  Shr(Shr((CoefScale - t.a) * Shr(s0, 4), 16)
                   + Shr(t.a * Shr(s1, 4), 16) + 2, 2)]]

\* fx = fy = 1
resize_unscaled(src) == src

resize(src) ==
    [src EXCEPT !.w = Fx * src.w,
                !.h = Fy * src.h,
                !.px = IF src.solid
                       THEN << << resizeLinear(src.px)[1][1] >> >>
                       ELSE resizeLinear(src.px)]

\* the limit itself refused
imencode_limitExcluded(m) ==
    IF m.w >= 65500 \/ m.h >= 65500
    THEN [ok |-> FALSE, buffer |-> <<>>]
    ELSE [ok |-> TRUE,
          buffer |-> <<255, 216, Hi(m.w), Lo(m.w), Hi(m.h), Lo(m.h)>>
                       \o Flatten(m.px)]

\* cv2.imencode(".jpg", img, [IMWRITE_JPEG_QUALITY, 95]) -> (ok, buffer).
\* The JPEG encoder refuses a raster wider or taller than 65500 samples;
\* the stream is the SOI marker, the frame dimensions and the samples
\* (quantisation loss is not modelled).
JpegSOI == <<255, 216>>

imencode(m) ==
    IF m.w > JpegMaxDimension \/ m.h > JpegMaxDimension
    THEN [ok |-> FALSE, buffer |-> <<>>]
    ELSE [ok |-> TRUE,
          buffer |-> JpegSOI \o <<Hi(m.w), Lo(m.w), Hi(m.h), Lo(m.h)>>
                             \o Flatten(m.px)]

\* ------------------------------------------------------------- inputs
\* BGR colours the enumerated images are painted with
Palette == {<<0, 0, 0>>, <<60, 60, 60>>, <<0, 0, 255>>}

\* dimensions of the single-colour images that are too large to enumerate
FillDims == {100, 32750, 32751}

Header(magic, w, h) == <<magic, Hi(w), Lo(w), Hi(h), Lo(h)>>

\* every image of at most MaxW x MaxH and MaxArea pixels over the palette
Shapes == {d \in (1..MaxW) \X (1..MaxH) : d[1] * d[2] <= MaxArea}

RawFiles ==
    UNION {{Header(RawMagic, d[1], d[2]) \o Flatten(cells) :
              cells \in [1..(d[1] * d[2]) -> Palette]} : d \in Shapes}

FillFiles ==
    {Header(FillMagic, w, h) \o c : w \in FillDims, h \in FillDims, c \in Palette}

\* the empty sequence, random bytes, truncated headers and payloads, a
\* zero-width header
BadFiles ==
    { <<>>,
      <<1, 2, 3>>,
      <<7, 0, 1, 0, 1, 9, 9, 9>>,
      <<RawMagic>>,
      <<RawMagic, 0, 1>>,
      Header(RawMagic, 1, 1),
      Header(RawMagic, 2, 1) \o <<0, 0, 0>>,
      Header(RawMagic, 1, 2) \o <<0, 0, 0, 60, 60>>,
      Header(RawMagic, 0, 1),
      Header(FillMagic, 100, 100),
      Header(FillMagic, 100, 100) \o <<60, 60>> }

Files == RawFiles \cup FillFiles \cup BadFiles

\* a file is a valid image when the decoder yields a raster for it
ValidImage(b) == b # <<>> /\ imdecode(b) # None

\* -------------------------------------------------------------- state
VARIABLES
    pc,          \* per call: position in clean_scan
    file_bytes,  \* per call: the argument
    img,         \* per call: local img
    gray,        \* per call: local gray
    denoised,    \* per call: local denoised
    thresh,      \* per call: local thresh
    resized,     \* per call: local resized
    out,         \* per call: the bytes returned (<<>> until then)
    err,         \* per call: the exception raised, [kind, at]
    ran,         \* per call: the library calls made so far, in order
    history,     \* outcomes of finished calls, [input, bytes, kind]
    http,        \* upload handler: "idle" or "processing"
    req,         \* upload handler: the request being served
    resp,        \* upload handler: the last response
    flashes      \* session: flashed messages not yet shown

frames == <<pc, file_bytes, img, gray, denoised, thresh, resized, out, err, ran>>
web == <<http, req, resp, flashes>>
vars == <<pc, file_bytes, img, gray, denoised, thresh, resized, out, err, ran,
          history, http, req, resp, flashes>>

NoErr == [kind |-> "none", at |-> "none"]
NoReq == [method |-> "none", file |-> FALSE, filename |-> <<>>, content |-> <<>>]
NoResp == [status |-> 0, flash |-> "", location |-> "", mimetype |-> "",
           body |-> <<>>, download_name |-> <<>>, shown |-> ""]

Calls == DOMAIN pc

InitFrames(ids) ==
    /\ pc = [i \in ids |-> "idle"]
    /\ file_bytes = [i \in ids |-> <<>>]
    /\ img = [i \in ids |-> None]
    /\ gray = [i \in ids |-> None]
    /\ denoised = [i \in ids |-> None]
    /\ thresh = [i \in ids |-> None]
    /\ resized = [i \in ids |-> None]
    /\ out = [i \in ids |-> <<>>]
    /\ err = [i \in ids |-> NoErr]
    /\ ran = [i \in ids |-> <<>>]

InitWeb ==
    /\ http = "idle"
    /\ req = NoReq
    /\ resp = NoResp
    /\ flashes = <<>>

Init == InitFrames({1}) /\ history = {} /\ InitWeb

\* ------------------------------------------------------------ clean_scan
\* entering clean_scan(file_bytes): a fresh frame
Enter(i, b) ==
    /\ pc' = [pc EXCEPT ![i] = "imdecode"]
    /\ file_bytes' = [file_bytes EXCEPT ![i] = b]
    /\ img' = [img EXCEPT ![i] = None]
    /\ gray' = [gray EXCEPT ![i] = None]
    /\ denoised' = [denoised EXCEPT ![i] = None]
    /\ thresh' = [thresh EXCEPT ![i] = None]
    /\ resized' = [resized EXCEPT ![i] = None]
    /\ out' = [out EXCEPT ![i] = <<>>]
    /\ err' = [err EXCEPT ![i] = NoErr]
    /\ ran' = [ran EXCEPT ![i] = <<>>]

Raise(i, kind, at) ==
    /\ pc' = [pc EXCEPT ![i] = "raised"]
    /\ err' = [err EXCEPT ![i] = [kind |-> kind, at |-> at]]

\* a direct call clean_scan(b)
Call(i, b) ==
    /\ pc[i] = "idle"
    /\ Enter(i, b)
    /\ UNCHANGED <<history, web>>

\* lines 65-66: img = cv2.imdecode(np.frombuffer(file_bytes), IMREAD_COLOR).
\* imdecode asserts !buf.empty(); on other undecodable bytes it returns None.
Decode(i) ==
    /\ pc[i] = "imdecode"
    /\ ran' = [ran EXCEPT ![i] = Append(@, "imdecode")]
    /\ IF file_bytes[i] = <<>>
       THEN /\ Raise(i, "cv2.error", "imdecode")
            /\ UNCHANGED img
       ELSE /\ img' = [img EXCEPT ![i] = imdecode(file_bytes[i])]
            /\ pc' = [pc EXCEPT ![i] = "cvtColor"]
            /\ UNCHANGED err
    /\ UNCHANGED <<file_bytes, gray, denoised, thresh, resized, out, history, web>>

\* line 68: gray = cv2.cvtColor(img, COLOR_BGR2GRAY); asserts !_src.empty()
Grayscale(i) ==
    /\ pc[i] = "cvtColor"
    /\ ran' = [ran EXCEPT ![i] = Append(@, "cvtColor")]
    /\ IF img[i] = None
       THEN /\ Raise(i, "cv2.error", "cvtColor")
            /\ UNCHANGED gray
       ELSE /\ gray' = [gray EXCEPT ![i] = cvtColor(img[i])]
            /\ pc' = [pc EXCEPT ![i] = "fastNlMeansDenoising"]
            /\ UNCHANGED err
    /\ UNCHANGED <<file_bytes, img, denoised, thresh, resized, out, history, web>>

\* denoised kept in one module-level variable shared by all calls
Denoise_shared(i) ==
    /\ pc[i] = "fastNlMeansDenoising"
    /\ ran' = [ran EXCEPT ![i] = Append(@, "fastNlMeansDenoising")]
    /\ denoised' = [j \in DOMAIN denoised |-> fastNlMeansDenoising(gray[i])]
    /\ pc' = [pc EXCEPT ![i] = "adaptiveThreshold"]
    /\ UNCHANGED <<file_bytes, img, gray, thresh, resized, out, err, history,
                   http, req, resp, flashes>>

\* line 69: denoised = cv2.fastNlMeansDenoising(gray, h=30)
Denoise(i) ==
    /\ pc[i] = "fastNlMeansDenoising"
    /\ ran' = [ran EXCEPT ![i] = Append(@, "fastNlMeansDenoising")]
    /\ denoised' = [denoised EXCEPT ![i] = fastNlMeansDenoising(gray[i])]
    /\ pc' = [pc EXCEPT ![i] = "adaptiveThreshold"]
    /\ UNCHANGED <<file_bytes, img, gray, thresh, resized, out, err, history, web>>

\* lines 70-74: thresh = cv2.adaptiveThreshold(denoised, 255, ...)
Threshold(i) ==
    /\ pc[i] = "adaptiveThreshold"
    /\ ran' = [ran EXCEPT ![i] = Append(@, "adaptiveThreshold")]
    /\ thresh' = [thresh EXCEPT ![i] = adaptiveThreshold(denoised[i])]
    /\ pc' = [pc EXCEPT ![i] = "resize"]
    /\ UNCHANGED <<file_bytes, img, gray, denoised, resized, out, err, history, web>>

\* resize applied to denoised, skipping the binary raster
Upscale_fromDenoised(i) ==
    /\ pc[i] = "resize"
    /\ ran' = [ran EXCEPT ![i] = Append(@, "resize")]
    /\ resized' = [resized EXCEPT ![i] = resize(denoised[i])]
    /\ pc' = [pc EXCEPT ![i] = "imencode"]
    /\ UNCHANGED <<file_bytes, img, gray, denoised, thresh, out, err, history,
                   http, req, resp, flashes>>

\* line 75: resized = cv2.resize(thresh, None, fx=2, fy=2, INTER_LINEAR)
Upscale(i) ==
    /\ pc[i] = "resize"
    /\ ran' = [ran EXCEPT ![i] = Append(@, "resize")]
    /\ resized' = [resized EXCEPT ![i] = resize(thresh[i])]
    /\ pc' = [pc EXCEPT ![i] = "imencode"]
    /\ UNCHANGED <<file_bytes, img, gray, denoised, thresh, out, err, history, web>>

\* lines 77-81: ok, buffer = cv2.imencode(".jpg", resized, ...);
\* if not ok: raise ValueError(...); return buffer.tobytes()
Reencode(i) ==
    /\ pc[i] = "imencode"
    /\ ran' = [ran EXCEPT ![i] = Append(@, "imencode")]
    /\ LET e == imencode(resized[i])
       IN  IF ~e.ok
           THEN /\ Raise(i, "ValueError", "imencode")
                /\ UNCHANGED out
           ELSE /\ out' = [out EXCEPT ![i] = e.buffer]
                /\ pc' = [pc EXCEPT ![i] = "returned"]
                /\ UNCHANGED err
    /\ UNCHANGED <<file_bytes, img, gray, denoised, thresh, resized, history, web>>

Stage(i) ==
    \/ Decode(i)
    \/ Grayscale(i)
    \/ Denoise(i)
    \/ Threshold(i)
    \/ Upscale(i)
    \/ Reencode(i)

Next ==
    \/ \E b \in Files : Call(1, b)
    \/ Decode(1)
    \/ Grayscale(1)
    \/ Denoise(1)
    \/ Threshold(1)
    \/ Upscale(1)
    \/ Reencode(1)

Spec == Init /\ [][Next]_vars

\* ------------------------------------------------- repeated, concurrent
\* leaving clean_scan: the frame and its rasters are discarded
Leave(i) ==
    /\ pc' = [pc EXCEPT ![i] = "idle"]
    /\ file_bytes' = [file_bytes EXCEPT ![i] = <<>>]
    /\ img' = [img EXCEPT ![i] = None]
    /\ gray' = [gray EXCEPT ![i] = None]
    /\ denoised' = [denoised EXCEPT ![i] = None]
    /\ thresh' = [thresh EXCEPT ![i] = None]
    /\ resized' = [resized EXCEPT ![i] = None]
    /\ out' = [out EXCEPT ![i] = <<>>]
    /\ err' = [err EXCEPT ![i] = NoErr]
    /\ ran' = [ran EXCEPT ![i] = <<>>]

Outcome(i) == [input |-> file_bytes[i], bytes |-> out[i], kind |-> err[i].kind]

\* the caller takes the result (or the exception) of call i
Return(i) ==
    /\ pc[i] \in {"returned", "raised"}
    /\ history' = history \cup {Outcome(i)}
    /\ Leave(i)
    /\ UNCHANGED web

\* files submitted by the concurrent callers
ConcFiles ==
    { <<>>,
      <<1, 2, 3>>,
      Header(RawMagic, 2, 1) \o <<0, 0, 0, 255, 255, 255>>,
      Header(RawMagic, 1, 2) \o <<60, 60, 60, 0, 0, 255>>,
      Header(FillMagic, 32751, 100) \o <<60, 60, 60>> }

InitConc == InitFrames({1, 2}) /\ history = {} /\ InitWeb

NextConc ==
    \/ \E i \in Calls : \E b \in ConcFiles : Call(i, b)
    \/ \E i \in Calls : Decode(i)
    \/ \E i \in Calls : Grayscale(i)
    \/ \E i \in Calls : Denoise(i)
    \/ \E i \in Calls : Threshold(i)
    \/ \E i \in Calls : Upscale(i)
    \/ \E i \in Calls : Reencode(i)
    \/ \E i \in Calls : Return(i)

SpecConc == InitConc /\ [][NextConc]_vars

\* --------------------------------------------------------- upload handler
Upper == <<"A", "B", "C", "D", "E", "F", "G", "H", "I", "J", "K", "L", "M",
           "N", "O", "P", "Q", "R", "S", "T", "U", "V", "W", "X", "Y", "Z">>
Lower == <<"a", "b", "c", "d", "e", "f", "g", "h", "i", "j", "k", "l", "m",
           "n", "o", "p", "q", "r", "s", "t", "u", "v", "w", "x", "y", "z">>

\* str.lower()
lower(s) ==
    [k \in 1..Len(s) |->
        IF \E u \in 1..26 : Upper[u] = s[k]
        THEN Lower[CHOOSE u \in 1..26 : Upper[u] = s[k]]
        ELSE s[k]]

\* line 21
ALLOWED_EXTS ==
    { <<"p", "n", "g">>, <<"j", "p", "g">>, <<"j", "p", "e", "g">>,
      <<"w", "e", "b", "p">>, <<"b", "m", "p">>, <<"t", "i", "f", "f">>,
      <<"g", "i", "f">> }

\* str.rfind("."): index of the last dot, 0 when there is none
RECURSIVE rfind(_, _)
rfind(s, k) == IF k = 0 THEN 0 ELSE IF s[k] = "." THEN k ELSE rfind(s, k - 1)

\* filename.rsplit(".", 1)[1]
rsplit1(s) == SubSeq(s, rfind(s, Len(s)) + 1, Len(s))

\* .lower() forgotten
allowed_caseSensitive(filename) ==
    /\ \E k \in 1..Len(filename) : filename[k] = "."
    /\ rsplit1(filename) \in ALLOWED_EXTS

\* lines 23-24
allowed(filename) ==
    /\ \E k \in 1..Len(filename) : filename[k] = "."
    /\ lower(rsplit1(filename)) \in ALLOWED_EXTS

\* werkzeug secure_filename on names of letters and dots: strip("._")
RECURSIVE lstrip(_)
lstrip(s) == IF s # <<>> /\ Head(s) = "." THEN lstrip(Tail(s)) ELSE s
RECURSIVE rstrip(_)
rstrip(s) ==
    IF s # <<>> /\ s[Len(s)] = "." THEN rstrip(SubSeq(s, 1, Len(s) - 1)) ELSE s
secure_filename(s) == rstrip(lstrip(s))

\* os.path.splitext(filename)[0]
splitext0(s) ==
    LET k == rfind(s, Len(s))
    IN  IF k <= 1 THEN s ELSE SubSeq(s, 1, k - 1)

CleanSuffix == <<"_", "c", "l", "e", "a", "n", ".", "j", "p", "g">>

Stems == { <<>>, <<"a">>, <<"a", ".", "b">> }
Exts ==
    { <<"p", "n", "g">>, <<"P", "N", "G">>, <<"J", "p", "g">>,
      <<"j", "p", "e", "g">>, <<"w", "e", "b", "p">>, <<"b", "m", "p">>,
      <<"t", "i", "f", "f">>, <<"g", "i", "f">>, <<"G", "I", "F">>,
      <<"e", "x", "e">>, <<"p", "n">>, <<"p", "n", "g", "x">>, <<>> }
Filenames ==
    {st \o <<".">> \o e : st \in Stems, e \in Exts}
        \cup { <<>>, <<"a">>, <<"p", "n", "g">>, <<"j", "p", "e", "g">> }

UploadContents ==
    { <<1, 2, 3>>,
      Header(RawMagic, 2, 1) \o <<0, 0, 0, 255, 255, 255>>,
      Header(FillMagic, 32751, 100) \o <<0, 0, 255>> }

Requests ==
    { [method |-> "GET", file |-> FALSE, filename |-> <<>>, content |-> <<>>],
      [method |-> "POST", file |-> FALSE, filename |-> <<>>, content |-> <<>>] }
    \cup { [method |-> "POST", file |-> TRUE, filename |-> f, content |-> c] :
             f \in Filenames, c \in UploadContents }

\* `not file`: no "image" part, or a FileStorage with an empty filename
Falsy(r) == ~r.file \/ r.filename = <<>>

Redirect(msg) ==
    [NoResp EXCEPT !.status = 302, !.flash = msg, !.location = "/"]

\* lines 86-97 and 110-111: upload() up to the call of clean_scan
upload(r) ==
    /\ http = "idle"
    /\ req' = r
    /\ IF r.method = "POST"
       THEN IF Falsy(r) \/ r.filename = <<>>
            THEN /\ Len(flashes) < MaxFlash
                 /\ flashes' = Append(flashes, "No file selected.")
                 /\ resp' = Redirect("No file selected.")
                 /\ UNCHANGED <<http, frames>>
            ELSE IF ~allowed(r.filename)
            THEN /\ Len(flashes) < MaxFlash
                 /\ flashes' = Append(flashes, "Unsupported file type.")
                 /\ resp' = Redirect("Unsupported file type.")
                 /\ UNCHANGED <<http, frames>>
            ELSE /\ http' = "processing"
                 /\ Enter(1, r.content)
                 /\ UNCHANGED <<resp, flashes>>
       ELSE /\ resp' = [NoResp EXCEPT !.status = 200,
                                      !.mimetype = "text/html",
                                      !.shown = IF flashes = <<>> THEN ""
                                                ELSE flashes[1]]
            /\ flashes' = <<>>
            /\ UNCHANGED <<http, frames>>
    /\ UNCHANGED history

\* lines 99-108: clean_scan returned; send_file(...)
upload_send(i) ==
    /\ http = "processing"
    /\ pc[i] = "returned"
    /\ resp' = [NoResp EXCEPT
                  !.status = 200,
                  !.mimetype = "image/jpeg",
                  !.body = out[i],
                  !.download_name =
                      splitext0(secure_filename(req.filename)) \o CleanSuffix]
    /\ http' = "idle"
    /\ Leave(i)
    /\ UNCHANGED <<history, req, flashes>>

\* clean_scan raised: the exception leaves upload(), the server answers 500
upload_error(i) ==
    /\ http = "processing"
    /\ pc[i] = "raised"
    /\ resp' = [NoResp EXCEPT !.status = 500]
    /\ http' = "idle"
    /\ Leave(i)
    /\ UNCHANGED <<history, req, flashes>>

NextUpload ==
    \/ \E r \in Requests : upload(r)
    \/ Decode(1)
    \/ Grayscale(1)
    \/ Denoise(1)
    \/ Threshold(1)
    \/ Upscale(1)
    \/ Reencode(1)
    \/ upload_send(1)
    \/ upload_error(1)

SpecUpload == Init /\ [][NextUpload]_vars

\* ======================================================================
\* Properties of one invocation (Spec)
\* ======================================================================
StageOrder == <<"imdecode", "cvtColor", "fastNlMeansDenoising",
                "adaptiveThreshold", "resize", "imencode">>

Finished(i) == pc[i] \in {"returned", "raised"}

IsPrefix(s, t) == Len(s) <= Len(t) /\ s = SubSeq(t, 1, Len(s))

\* C1: for every input that is not a valid image, clean_scan ends in a
\* failure raised by the decode stage and never returns output bytes.
C1_DecodeStageFails ==
    \A i \in Calls :
        (Finished(i) /\ ~ValidImage(file_bytes[i]))
            => /\ pc[i] = "raised"
               /\ err[i].at = "imdecode"
               /\ out[i] = <<>>

\* C2: the raster handed to the encoder is 2W x 2H for a decoded raster of
\* W x H; grayscale, denoise and threshold keep W x H.
SameDims(a, b) ==
    /\ a.w = b.w /\ a.h = b.h
    /\ Rows(a) = Rows(b) /\ Cols(a) = Cols(b)

C2_Dimensions ==
    \A i \in Calls :
        /\ gray[i] # None => SameDims(gray[i], img[i])
        /\ denoised[i] # None => SameDims(denoised[i], img[i])
        /\ thresh[i] # None => SameDims(thresh[i], img[i])
        /\ resized[i] # None =>
              /\ resized[i].w = 2 * img[i].w
              /\ resized[i].h = 2 * img[i].h
              /\ ~resized[i].solid =>
                    /\ Rows(resized[i]) = 2 * img[i].h
                    /\ Cols(resized[i]) = 2 * img[i].w
                    /\ \A y \in 1..Rows(resized[i]) :
                          Len(resized[i].px[y]) = 2 * img[i].w

C2_Witness ==
    /\ pc[1] = "imencode"
    /\ img[1].w = 2 /\ img[1].h = 1
    /\ thresh[1].w = 2 /\ thresh[1].h = 1
    /\ resized[1].w = 4 /\ resized[1].h = 2

\* C3: every sample of the raster produced by the threshold stage is 0 or
\* 255.
C3_Binary ==
    \A i \in Calls :
        thresh[i] # None => Samples(thresh[i]) \subseteq {0, 255}

C3_Witness ==
    /\ pc[1] = "resize"
    /\ Samples(thresh[1]) = {0, 255}

\* C4 (as claimed): every sample of the upscaled raster is one of the two
\* values the threshold stage produced.
C4_UpscaledBinary ==
    \A i \in Calls :
        resized[i] # None => Samples(resized[i]) \subseteq {0, 255}

\* C4 (amended): every sample of the upscaled raster lies between the
\* smallest and the largest of the threshold samples nearest to it (source
\* rows and columns d \div 2 and d \div 2 + 1, clamped to the raster), so it
\* is 0 or 255 wherever those neighbours agree.
Nearest(px, y, x) ==
    {px[r][c] : r \in {Clamp(y \div 2, Len(px)), Clamp(y \div 2 + 1, Len(px))},
                c \in {Clamp(x \div 2, Len(px[1])), Clamp(x \div 2 + 1, Len(px[1]))}}

C4_Interpolated ==
    \A i \in Calls :
        resized[i] # None =>
            \A y \in 1..Rows(resized[i]) : \A x \in 1..Cols(resized[i]) :
                LET v == resized[i].px[y][x]
                    N == Nearest(thresh[i].px, y, x)
                IN  /\ \E n \in N : n <= v
                    /\ \E n \in N : v <= n

C4_Witness ==
    /\ pc[1] = "imencode"
    /\ Samples(thresh[1]) = {0, 255}
    /\ \E v \in Samples(resized[1]) : v \notin {0, 255}

\* C6 (as claimed): once decode has succeeded clean_scan never ends in a
\* failure.
C6_NeverFailsAfterDecode ==
    \A i \in Calls :
        img[i] # None => pc[i] # "raised"

\* C6 (amended): once decode has succeeded all remaining stages run; the
\* call returns a JPEG stream of the 2W x 2H raster when 2W and 2H are at
\* most 65500, and otherwise ends in the ValueError of the re-encode stage.
FitsJpeg(m) == 2 * m.w <= 65500 /\ 2 * m.h <= 65500

C6_FailsOnlyInEncoder ==
    \A i \in Calls :
        (img[i] # None /\ Finished(i)) =>
            /\ ran[i] = StageOrder
            /\ FitsJpeg(img[i]) =>
                  /\ pc[i] = "returned"
                  /\ SubSeq(out[i], 1, 2) = <<255, 216>>
                  /\ Word(out[i], 3) = 2 * img[i].w
                  /\ Word(out[i], 5) = 2 * img[i].h
            /\ ~FitsJpeg(img[i]) =>
                  /\ pc[i] = "raised"
                  /\ err[i] = [kind |-> "ValueError", at |-> "imencode"]
                  /\ out[i] = <<>>

C6_Witness ==
    /\ pc[1] = "returned"
    /\ img[1].w = 32750
    /\ out[1] # <<>>

\* C8: the stages run in the order decode, grayscale, denoise, threshold,
\* upscale, re-encode, each at most once and after its predecessor, and
\* each takes the output of the stage before it.
C8_Sequential ==
    \A i \in Calls :
        /\ IsPrefix(ran[i], StageOrder)
        /\ pc[i] \notin {"idle", "returned", "raised"} =>
              pc[i] = StageOrder[Len(ran[i]) + 1]
        /\ img[i] # None => img[i] = imdecode(file_bytes[i])
        /\ gray[i] # None => gray[i] = cvtColor(img[i])
        /\ denoised[i] # None => denoised[i] = fastNlMeansDenoising(gray[i])
        /\ thresh[i] # None => thresh[i] = adaptiveThreshold(denoised[i])
        /\ resized[i] # None => resized[i] = resize(thresh[i])
        /\ out[i] # <<>> => out[i] = imencode(resized[i]).buffer
        /\ (gray[i] = None) => (denoised[i] = None)
        /\ (denoised[i] = None) => (thresh[i] = None)
        /\ (thresh[i] = None) => (resized[i] = None)
        /\ (resized[i] = None) => (out[i] = <<>>)

C8_Witness ==
    /\ pc[1] = "returned"
    /\ ran[1] = StageOrder
    /\ denoised[1] # gray[1]
    /\ Samples(thresh[1]) # Samples(denoised[1])

\* C9: a failing stage aborts the invocation at that stage: no later stage
\* runs, and the error is raised by the stage that failed (decode for an
\* undecodable input, re-encode for a raster the encoder refuses).
FailedStage(i) == IF ValidImage(file_bytes[i]) THEN "imencode" ELSE "imdecode"

C9_AbortsAtFailedStage ==
    \A i \in Calls :
        pc[i] = "raised" =>
            /\ err[i].at = FailedStage(i)
            /\ ran[i][Len(ran[i])] = FailedStage(i)
            /\ out[i] = <<>>

\* C10 (as claimed): a threshold sample is 255 exactly when the denoised
\* sample exceeds the mean of its 35x35 neighbourhood minus 15.
Weight(i, j, n) ==
    Cardinality({d \in (0 - 17)..17 : Clamp(i + d, n) = j})

WindowSum(px, y, x) ==
    LET h == Len(px)
        w == Len(px[1])
    IN  SumFn([k \in 1..(h * w) |->
                 LET r == ((k - 1) \div w) + 1
                     c == ((k - 1) % w) + 1
                 IN  Weight(y, r, h) * Weight(x, c, w) * px[r][c]],
              1, h * w)

C10_ExactMean ==
    \A i \in Calls :
        thresh[i] # None =>
            \A y \in 1..Rows(thresh[i]) : \A x \in 1..Cols(thresh[i]) :
                thresh[i].px[y][x] =
                    IF 1225 * denoised[i].px[y][x]
                          > WindowSum(denoised[i].px, y, x) - 15 * 1225
                    THEN 255 ELSE 0

\* C10 (amended): a threshold sample is 255 exactly when the denoised
\* sample exceeds the mean of its 35x35 neighbourhood (border samples
\* replicated), rounded to the nearest integer, minus 15; a raster of equal
\* samples maps to all 255.
RoundedMean(px, y, x) == (2 * WindowSum(px, y, x) + 1225) \div 2450

C10_RoundedMean ==
    \A i \in Calls :
        thresh[i] # None =>
            /\ \A y \in 1..Rows(thresh[i]) : \A x \in 1..Cols(thresh[i]) :
                  thresh[i].px[y][x] =
                      IF denoised[i].px[y][x]
                            > RoundedMean(denoised[i].px, y, x) - 15
                      THEN 255 ELSE 0
            /\ Cardinality(Samples(denoised[i])) = 1 =>
                  Samples(thresh[i]) = {255}

C10_Witness ==
    /\ pc[1] = "resize"
    /\ Cardinality(Samples(denoised[1])) > 1
    /\ \E y \in 1..Rows(thresh[1]) : \E x \in 1..Cols(thresh[1]) :
          /\ thresh[1].px[y][x] = 0
          /\ denoised[1].px[y][x] = RoundedMean(denoised[1].px, y, x) - 15

\* ======================================================================
\* Properties of repeated and concurrent invocations (SpecConc)
\* ======================================================================
\* the outcome of clean_scan(b) run on its own
Alone(b) ==
    LET failed(k) == [input |-> b, bytes |-> <<>>, kind |-> k]
    IN  IF b = <<>> THEN failed("cv2.error")
        ELSE IF imdecode(b) = None THEN failed("cv2.error")
        ELSE LET e == imencode(resize(adaptiveThreshold(
                         fastNlMeansDenoising(cvtColor(imdecode(b))))))
             IN  IF e.ok THEN [input |-> b, bytes |-> e.buffer, kind |-> "none"]
                 ELSE failed("ValueError")

FrameOf(i) ==
    <<pc[i], file_bytes[i], img[i], gray[i], denoised[i], thresh[i],
      resized[i], out[i], err[i], ran[i]>>

C5_SameAsAlone ==
    /\ \A i \in Calls : Finished(i) => Outcome(i) = Alone(file_bytes[i])
    /\ \A g1 \in history : \A g2 \in history :
          g1.input = g2.input => g1 = g2

C5_OneFramePerStep ==
    \E i \in Calls : \A j \in Calls \ {i} : FrameOf(j)' = FrameOf(j)

\* C5: clean_scan keeps no state between invocations: every call, repeated
\* or interleaved with another, ends with the outcome its input has when
\* run alone, and no step touches the rasters of two invocations.
C5_Stateless == []C5_SameAsAlone /\ [][C5_OneFramePerStep]_vars

C5_Witness ==
    /\ pc[1] = "returned" /\ pc[2] = "returned"
    /\ file_bytes[1] = file_bytes[2]
    /\ out[1] # <<>>
    /\ \E g \in history : g.input = file_bytes[1] /\ g.bytes = out[2]
    /\ \E g \in history : g.input # file_bytes[1]

\* ======================================================================
\* Properties of the upload handler (SpecUpload)
\* ======================================================================
SameLetter(a, b) == a = b \/ \E u \in 1..26 : Upper[u] = a /\ Lower[u] = b

\* the part after the last dot is, ignoring case, one of the seven
\* extensions
ExtensionOK(f) ==
    \E k \in 1..Len(f) :
        /\ f[k] = "."
        /\ \A j \in (k + 1)..Len(f) : f[j] # "."
        /\ \E e \in { <<"p", "n", "g">>, <<"j", "p", "g">>, <<"j", "p", "e", "g">>,
                      <<"w", "e", "b", "p">>, <<"b", "m", "p">>,
                      <<"t", "i", "f", "f">>, <<"g", "i", "f">> } :
              /\ Len(e) = Len(f) - k
              /\ \A j \in 1..Len(e) : SameLetter(f[k + j], e[j])

Acceptable(r) ==
    r.method = "POST" /\ r.file /\ r.filename # <<>> /\ ExtensionOK(r.filename)

C7_CoreOnlyForAccepted ==
    \A i \in Calls : pc[i] # "idle" => (http = "processing" /\ Acceptable(req))

C7_HandlerStep ==
    http = "idle" =>
        LET r == req'
        IN  IF r.method = "POST" /\ (~r.file \/ r.filename = <<>>)
            THEN /\ resp'.status = 302 /\ resp'.flash = "No file selected."
                 /\ flashes' = Append(flashes, "No file selected.")
                 /\ UNCHANGED frames
            ELSE IF r.method = "POST" /\ ~ExtensionOK(r.filename)
            THEN /\ resp'.status = 302 /\ resp'.flash = "Unsupported file type."
                 /\ flashes' = Append(flashes, "Unsupported file type.")
                 /\ UNCHANGED frames
            ELSE IF r.method = "POST"
            THEN pc'[1] = "imdecode" /\ file_bytes'[1] = r.content
            ELSE UNCHANGED frames

\* C7: clean_scan is invoked for a POST only when a file with a non-empty
\* filename and an allowed extension (after the last dot, ignoring case) is
\* present; no file or an empty filename is answered with "No file
\* selected.", a missing dot or another extension with "Unsupported file
\* type.", both by a redirect without calling clean_scan.
C7_Validation == []C7_CoreOnlyForAccepted /\ [][C7_HandlerStep]_vars

C7_Witness ==
    /\ http = "processing"
    /\ pc[1] = "imencode"
    /\ req.filename = <<"a", ".", "b", ".", "P", "N", "G">>
    /\ flashes = <<"No file selected.", "Unsupported file type.">>

====
